---- MODULE Spec2Model ----
(***************************************************************************)
(* Model of backend/validator/video_quality_validator.py: the frame walk   *)
(* of analyze_video_quality, the threshold checks of validate_quality and  *)
(* the assembly of ValidationPipelineOutput in run.                        *)
(*                                                                         *)
(* Percentages are Python floats in the source (100 * count / num_images). *)
(* They are kept here as exact reduced fractions; for num_images < 1500    *)
(* every comparison with the 10.0 thresholds and with 0 agrees between the *)
(* float value and the exact fraction, and for num_images not divisible by *)
(* 16 the one-decimal formatting has no ties, so Fmt1 is the formatted     *)
(* text of the float.  Messages and issue lines are records holding the    *)
(* fixed text and the interpolated values.                                 *)
(***************************************************************************)
EXTENDS Integers, Sequences, FiniteSets, TLC

\* ---------------------------------------------------------------- bounds
MaxFrames == 2
MaxRate == 4
MaxStart == 2
MaxImages == 10
MaxCount == 12

\* ------------------------------------------------------ program constants
MIN_CLARITY == 20
MIN_EXPOSURE == 60
MAX_EXPOSURE == 200
MIN_CONTRAST == 25
MAX_BLURRY_PCT == 10
MAX_EXPOSURE_PCT == 10
MAX_LOW_CONTRAST_PCT == 10
FPS == 30

VARIABLES video, args, pc, cap, frame_idx, analyzed_count, total_to_analyze,
          actual_end_frame, stats, calls, frames, exit_path, analysis,
          validation, validate_calls, out, fl, upload, wasabi, auth

\* the state of the validator module
coreVars == <<video, args, pc, cap, frame_idx, analyzed_count,
              total_to_analyze, actual_end_frame, stats, calls, frames,
              exit_path, analysis, validation, validate_calls, out>>

\* the state the validator's actions leave alone
others == <<fl, upload, wasabi, auth>>

vars == <<coreVars, others>>

\* ---------------------------------------------------------------- helpers
Min(a, b) == IF a < b THEN a ELSE b

RECURSIVE Gcd(_, _)
Gcd(a, b) == IF b = 0 THEN a ELSE Gcd(b, a % b)

\* the empty dict {}
EmptyDict == [k \in {} |-> 0]

\* dict.get(key, default)
Get(d, k, default) == IF k \in DOMAIN d THEN d[k] ELSE default

\* the empty string used for messages
EmptyMsg == [text |-> ""]

\* values a frame's metrics are drawn from, on both sides of the per-frame
\* thresholds
ClarityVals == {MIN_CLARITY - 1, MIN_CLARITY}
ExposureVals == {MIN_EXPOSURE - 1, MAX_EXPOSURE, MAX_EXPOSURE + 1}
ContrastVals == {MIN_CONTRAST - 1, MIN_CONTRAST}

\* ------------------------------------------------------------ percentages
\* 100 * count / num_images, as a reduced fraction
Pct(count, num_images) ==
    LET g == Gcd(100 * count, num_images)
    IN  [num |-> (100 * count) \div g, den |-> num_images \div g]

\* under_exposed_pct + over_exposed_pct
PctAdd(p, q) ==
    LET n == p.num * q.den + q.num * p.den
        d == p.den * q.den
        g == Gcd(n, d)
    IN  [num |-> n \div g, den |-> d \div g]

\* variant: the comparison made non-strict
ExceedsOrEqual(pct, threshold) == pct.num >= threshold * pct.den

\* pct > threshold (strict)
Exceeds(pct, threshold) == pct.num > threshold * pct.den

\* f"{pct:.1f}": the percentage in tenths, rounded to nearest, ties to even
Fmt1(pct) ==
    LET x == 10 * pct.num
        q == x \div pct.den
        r == x % pct.den
    IN  IF 2 * r > pct.den \/ (2 * r = pct.den /\ q % 2 = 1) THEN q + 1 ELSE q

\* f"{threshold}" of the float thresholds (10.0), in tenths
FmtThreshold(threshold) == 10 * threshold

ClarityIssue(blurry_pct) ==
    [text |-> "Clarity: {pct}% of frames are blurry (threshold: {thr}%)",
     pct |-> Fmt1(blurry_pct), thr |-> FmtThreshold(MAX_BLURRY_PCT)]

ExposureIssue(exposure_pct) ==
    [text |-> "Exposure: {pct}% of frames have exposure issues (threshold: {thr}%)",
     pct |-> Fmt1(exposure_pct), thr |-> FmtThreshold(MAX_EXPOSURE_PCT)]

ContrastIssue(low_contrast_pct) ==
    [text |-> "Contrast: {pct}% of frames have low contrast (threshold: {thr}%)",
     pct |-> Fmt1(low_contrast_pct), thr |-> FmtThreshold(MAX_LOW_CONTRAST_PCT)]

UnderLine(under_exposed_pct) ==
    [text |-> "  - Under-exposed: {pct}%", pct |-> Fmt1(under_exposed_pct)]

OverLine(over_exposed_pct) ==
    [text |-> "  - Over-exposed: {pct}%", pct |-> Fmt1(over_exposed_pct)]

\* ------------------------------------------------------- float arithmetic
\* A Python float is a binary64 value.  The non-negative values below 2^8
\* met here are kept as their binary expansion on a fixed grid of three
\* limbs of LimbBits bits each, most significant first; the first limb holds
\* the GridInt integer bits and the first fraction bits.  Every operation
\* computes the exact result on the grid and rounds it to MantissaBits
\* significant bits, ties to even.
MantissaBits == 53
GridInt == 8
LimbBits == 23

Base == 2^LimbBits

\* weight of the unit in the first limb
One == 2^(LimbBits - GridInt)

\* the limbs of t1 * Base^2 + t2 * Base + t3, carries propagated
Norm(t1, t2, t3) ==
    LET u2 == t2 + (t3 \div Base)
    IN  <<t1 + (u2 \div Base), u2 % Base, t3 % Base>>

\* float(k)
FloatOfInt(k) == <<k * One, 0, 0>>

\* a/n cut to the grid by long division; sticky says that something was
\* cut off
Quotient(a, n) ==
    LET r0 == a % n
        r1 == (r0 * One) % n
        r2 == (r1 * Base) % n
        r3 == (r2 * Base) % n
    IN  [bits |-> <<(a \div n) * One + ((r0 * One) \div n),
                    (r1 * Base) \div n, (r2 * Base) \div n>>,
         sticky |-> r3 # 0]

\* round to nearest, ties to even, at MantissaBits significant bits: with
\* the leading bit at 2^e in the first limb, the last d = e + 1 +
\* 2 * LimbBits - MantissaBits bits of the third limb are dropped
Round53(x) ==
    LET X == x.bits
    IN  IF X[1] = 0 THEN X
        ELSE LET e == CHOOSE k \in 0..(LimbBits - 1) :
                          2^k <= X[1] /\ X[1] < 2^(k + 1)
                 d == e + 1 + 2 * LimbBits - MantissaBits
             IN  IF d <= 0 THEN X
                 ELSE LET low == X[3] % 2^d
                          half == 2^(d - 1)
                          odd == (X[3] \div 2^d) % 2 = 1
                          up == \/ low > half
                                \/ low = half /\ (x.sticky \/ odd)
                      IN  Norm(X[1], X[2],
                               X[3] - low + IF up THEN 2^d ELSE 0)

\* int / int, Python's true division
FloatDiv(a, n) == Round53(Quotient(a, n))

\* float * int
FloatMul(X, k) ==
    Round53([bits |-> Norm(X[1] * k, X[2] * k, X[3] * k), sticky |-> FALSE])

\* float + float
FloatAdd(X, Y) ==
    Round53([bits |-> Norm(X[1] + Y[1], X[2] + Y[2], X[3] + Y[3]),
             sticky |-> FALSE])

\* variant: the fraction blurry / num_images, not scaled to a percentage
BlurryFractionFloat(s) ==
    FloatDiv(Get(s, "blurry", 0), Get(s, "num_images", 0))

\* line 211: blurry_pct as the float the code computes
BlurryPctFloat(s) ==
    FloatDiv(100 * Get(s, "blurry", 0), Get(s, "num_images", 0))

\* -------------------------------------------------------- validate_quality
\* variant: the exposure check made before the clarity check
ValidateIssuesExposureFirst(blurry_pct, exposure_pct, low_contrast_pct) ==
    (IF Exceeds(exposure_pct, MAX_EXPOSURE_PCT)
        THEN <<ExposureIssue(exposure_pct)>> ELSE <<>>)
    \o (IF Exceeds(blurry_pct, MAX_BLURRY_PCT)
        THEN <<ClarityIssue(blurry_pct)>> ELSE <<>>)
    \o (IF Exceeds(low_contrast_pct, MAX_LOW_CONTRAST_PCT)
        THEN <<ContrastIssue(low_contrast_pct)>> ELSE <<>>)

\* the issues list, appended to in the order of the three checks
ValidateIssues(blurry_pct, exposure_pct, low_contrast_pct) ==
    (IF Exceeds(blurry_pct, MAX_BLURRY_PCT)
        THEN <<ClarityIssue(blurry_pct)>> ELSE <<>>)
    \o (IF Exceeds(exposure_pct, MAX_EXPOSURE_PCT)
        THEN <<ExposureIssue(exposure_pct)>> ELSE <<>>)
    \o (IF Exceeds(low_contrast_pct, MAX_LOW_CONTRAST_PCT)
        THEN <<ContrastIssue(low_contrast_pct)>> ELSE <<>>)

\* variant: the sub-lines appended without the non-zero tests
ExposureDetailsAlwaysBoth(exposure_pct, under_exposed_pct, over_exposed_pct) ==
    IF Exceeds(exposure_pct, MAX_EXPOSURE_PCT)
    THEN <<ExposureIssue(exposure_pct), UnderLine(under_exposed_pct),
           OverLine(over_exposed_pct)>>
    ELSE <<>>

\* details["exposure"]
ExposureDetails(exposure_pct, under_exposed_pct, over_exposed_pct) ==
    IF Exceeds(exposure_pct, MAX_EXPOSURE_PCT)
    THEN <<ExposureIssue(exposure_pct)>>
         \o (IF under_exposed_pct.num > 0
             THEN <<UnderLine(under_exposed_pct)>> ELSE <<>>)
         \o (IF over_exposed_pct.num > 0
             THEN <<OverLine(over_exposed_pct)>> ELSE <<>>)
    ELSE <<>>

ValidateDetails(blurry_pct, exposure_pct, under_pct, over_pct, low_pct) ==
    [clarity |-> IF Exceeds(blurry_pct, MAX_BLURRY_PCT)
                 THEN <<ClarityIssue(blurry_pct)>> ELSE <<>>,
     exposure |-> ExposureDetails(exposure_pct, under_pct, over_pct),
     contrast |-> IF Exceeds(low_pct, MAX_LOW_CONTRAST_PCT)
                  THEN <<ContrastIssue(low_pct)>> ELSE <<>>]

ValidateMessage(issues) ==
    IF Len(issues) = 0
    THEN [text |-> "Validation passed! All visual quality checks meet the standards."]
    ELSE [text |-> "Validation failed. The following issues were found: {lines} A total of {count} issues were found.",
          lines |-> issues, count |-> Len(issues)]

\* variant: a single analyzed frame treated as no data as well
NoDataBelowTwo(num_images) == num_images <= 1

\* line 208: there is nothing to validate
NoData(num_images) == num_images = 0

\* (success, message, validation_result)
validate_quality(s) ==
    LET num_images == Get(s, "num_images", 0)
    IN  IF NoData(num_images)
        THEN [success |-> FALSE,
              message |-> [text |-> "No image data available for validation."],
              result |-> EmptyDict]
        ELSE LET blurry_pct == Pct(Get(s, "blurry", 0), num_images)
                 under_exposed_pct == Pct(Get(s, "under_exposed", 0), num_images)
                 over_exposed_pct == Pct(Get(s, "over_exposed", 0), num_images)
                 low_contrast_pct == Pct(Get(s, "low_contrast", 0), num_images)
                 exposure_pct == PctAdd(under_exposed_pct, over_exposed_pct)
                 issues == ValidateIssues(blurry_pct, exposure_pct,
                                          low_contrast_pct)
             IN  [success |-> TRUE,
                  message |-> ValidateMessage(issues),
                  result |->
                    [passed |-> Len(issues) = 0,
                     issues |-> issues,
                     details |-> ValidateDetails(blurry_pct, exposure_pct,
                                    under_exposed_pct, over_exposed_pct,
                                    low_contrast_pct),
                     stats |-> [blurry_pct |-> blurry_pct,
                                exposure_pct |-> exposure_pct,
                                under_exposed_pct |-> under_exposed_pct,
                                over_exposed_pct |-> over_exposed_pct,
                                low_contrast_pct |-> low_contrast_pct]]]

\* ---------------------------------------------------- analyze_video_quality
\* end_frame clamped to the frame count, or the frame count when absent
ActualEndFrame(a, total_frames) ==
    IF a.end_given THEN Min(a.end_frame, total_frames) ELSE total_frames

\* the stats dict built before the walk
InitialStats(total_frames, sample_rate, estimate) ==
    [clarity |-> <<>>, exposure |-> <<>>, contrast |-> <<>>,
     num_images |-> 0, blurry |-> 0, under_exposed |-> 0, over_exposed |-> 0,
     low_contrast |-> 0, total_frames |-> total_frames, fps |-> FPS,
     sample_rate |-> sample_rate, frames_analyzed |-> estimate]

\* variant: the stride counted from frame 0 instead of start_frame
OnStrideFromZero(idx, start_frame, sample_rate) == idx % sample_rate = 0

\* variant: the stride test shifted by one frame
OnStrideShifted(idx, start_frame, sample_rate) ==
    (idx - start_frame + 1) % sample_rate = 0

\* the frame index falls on the stride
OnStride(idx, start_frame, sample_rate) ==
    (idx - start_frame) % sample_rate = 0

AfterClarity(s, clarity_score) ==
    [s EXCEPT !.clarity = Append(@, clarity_score),
              !.blurry = IF clarity_score < MIN_CLARITY THEN @ + 1 ELSE @]

AfterExposure(s, mean_intensity) ==
    [s EXCEPT !.exposure = Append(@, mean_intensity),
              !.under_exposed = IF mean_intensity < MIN_EXPOSURE
                                THEN @ + 1 ELSE @,
              !.over_exposed = IF mean_intensity >= MIN_EXPOSURE
                                  /\ mean_intensity > MAX_EXPOSURE
                               THEN @ + 1 ELSE @]

AfterContrast(s, contrast) ==
    [s EXCEPT !.contrast = Append(@, contrast),
              !.low_contrast = IF contrast < MIN_CONTRAST THEN @ + 1 ELSE @]

\* where the body of the per-frame try block can stop:
\*   "convert"  cvtColor or Laplacian raises, before anything is recorded
\*   "mean"     gray.mean() raises, after the clarity score was recorded
\*   "std"      gray.std() raises, after clarity and exposure were recorded
\*   "callback" the progress callback raises, after the frame was counted
\*   "ok"       the body runs to its end
Outcomes == {"ok", "convert", "mean", "std", "callback"}

Counted(outcome) == outcome \in {"ok", "callback"}

\* the stats dict when the try block is left with the given outcome
FrameStats(s, count, c, e, k, outcome) ==
    LET s1 == AfterClarity(s, c)
        s2 == AfterExposure(s1, e)
        s3 == AfterContrast(s2, k)
        s4 == [s3 EXCEPT !.num_images = count + 1]
    IN  CASE outcome = "convert" -> s
          [] outcome = "mean" -> s1
          [] outcome = "std" -> s2
          [] OTHER -> s4

\* variant: the callback given the count before the increment
CallbackArgsBeforeIncrement(count, estimate) == <<count - 1, estimate>>

\* the arguments the progress callback is invoked with
CallbackArgs(count, estimate) == <<count, estimate>>

AnalyzeMessage(count, a, end) ==
    [text |-> "Quality analysis completed. Analyzed {n}/{range} frames (range: {start}-{end}, sampling every {rate} frames)",
     n |-> count, range |-> end - a.start_frame, start |-> a.start_frame,
     end |-> end, rate |-> a.sample_rate]

\* variant: the zero-frames test left out
AnalyzeResultNoZeroCheck(count, s, a, end) ==
    [success |-> TRUE, message |-> AnalyzeMessage(count, a, end), stats |-> s]

\* lines 177-191: what analyze returns once the walk has ended
AnalyzeResult(count, s, a, end) ==
    IF count = 0
    THEN [success |-> FALSE, message |-> [text |-> "No frames were analyzed."],
          stats |-> EmptyDict]
    ELSE [success |-> TRUE, message |-> AnalyzeMessage(count, a, end),
          stats |-> s]

\* ------------------------------------------------------------------- run
VideoPath == "video.mp4"
CreatedAt == "created_at"
SummaryText == "Visual Quality Analysis Summary"

\* variant: the two status words exchanged
StatusOfInverted(passed) == IF passed THEN "bad" ELSE "good"

\* status = "good" if passed else "bad"
StatusOf(passed) == IF passed THEN "good" ELSE "bad"

\* f"{analyze_msg}\n\n{validate_msg}"
Combined(analyze_msg, validate_msg) ==
    [text |-> "{first}\n\n{second}", first |-> analyze_msg,
     second |-> validate_msg]

\* variant: the analyzer's message left out of the combined message
AnalyzeFailedOutputNoMessage(a) ==
    [passed |-> FALSE, status |-> "bad", analyze_success |-> FALSE,
     validate_success |-> FALSE, message |-> EmptyMsg,
     analyze_message |-> a.message, validate_message |-> EmptyMsg,
     issues |-> <<>>, details |-> EmptyDict, stats |-> EmptyDict,
     summary |-> "", video_path |-> VideoPath, created_at |-> CreatedAt]

\* lines 351-366: the output when analyze failed
AnalyzeFailedOutput(a) ==
    [passed |-> FALSE, status |-> "bad", analyze_success |-> FALSE,
     validate_success |-> FALSE, message |-> a.message,
     analyze_message |-> a.message, validate_message |-> EmptyMsg,
     issues |-> <<>>, details |-> EmptyDict, stats |-> EmptyDict,
     summary |-> "", video_path |-> VideoPath, created_at |-> CreatedAt]

\* lines 370-386: the output when validate failed
ValidateFailedOutput(a, v) ==
    [passed |-> FALSE, status |-> "bad", analyze_success |-> TRUE,
     validate_success |-> FALSE, message |-> Combined(a.message, v.message),
     analyze_message |-> a.message, validate_message |-> v.message,
     issues |-> <<>>, details |-> EmptyDict, stats |-> EmptyDict,
     summary |-> "", video_path |-> VideoPath, created_at |-> CreatedAt]

\* lines 388-414: the completed output
CompletedOutput(a, v, summary) ==
    LET passed == Get(v.result, "passed", FALSE)
    IN  [passed |-> passed, status |-> StatusOf(passed),
         analyze_success |-> TRUE, validate_success |-> TRUE,
         message |-> Combined(a.message, v.message),
         analyze_message |-> a.message, validate_message |-> v.message,
         issues |-> Get(v.result, "issues", <<>>),
         details |-> Get(v.result, "details", EmptyDict),
         stats |-> Get(v.result, "stats", EmptyDict),
         summary |-> summary, video_path |-> VideoPath,
         created_at |-> CreatedAt]

\* ------------------------------------------------------------------ state
NoAnalysis == [success |-> FALSE, message |-> EmptyMsg, stats |-> EmptyDict]
NoValidation == [success |-> FALSE, message |-> EmptyMsg, result |-> EmptyDict]

\* a path that does not exist has nothing to open
Videos ==
    { v \in [exists : BOOLEAN, openable : BOOLEAN,
             total_frames : 0..MaxFrames] :
        ~v.exists => (~v.openable /\ v.total_frames = 0) }

Args ==
    { a \in [sample_rate : 0..MaxRate, start_frame : 0..MaxStart,
             end_given : BOOLEAN, end_frame : 0..(MaxFrames + 1),
             has_callback : BOOLEAN] :
        ~a.end_given => a.end_frame = 0 }

Idle ==
    /\ cap = "none"
    /\ frame_idx = 0
    /\ analyzed_count = 0
    /\ total_to_analyze = 0
    /\ actual_end_frame = 0
    /\ calls = <<>>
    /\ frames = <<>>
    /\ exit_path = "none"
    /\ analysis = NoAnalysis
    /\ validation = NoValidation
    /\ validate_calls = 0
    /\ out = EmptyDict
    /\ fl = FloatOfInt(0)

\* no upload request is being handled and the bucket is empty
NoUpload ==
    [pc |-> "idle", tmp_file |-> FALSE, validation |-> EmptyDict,
     passed |-> FALSE, status |-> "", response |-> 0]
EmptyBucket == [object |-> EmptyDict, uploads |-> 0, record |-> EmptyDict]
IdleUpload == upload = NoUpload /\ wasabi = EmptyBucket

\* --------------------------------------------------------- app.py: auth
\* the shared passcode of the deployment
AUTH_SECRET == "passcode"

\* seconds a token stays valid, set per deployment (AUTH_TTL_SECONDS in the
\* environment); the clock counts in fractions of a second so that
\* int(time.time()) truncates
AUTH_TTL_SECONDS == 1
TicksPerSecond == 2
MaxClock == 5
MaxLogins == 2

AUTH_EXEMPT_PATHS == {"/health", "/auth/login", "/auth/logout", "/auth/me"}
Paths == AUTH_EXEMPT_PATHS \cup {"/uploads", "/status/{upload_id}"}
Methods == {"GET", "POST", "OPTIONS"}
SecretKeys == {AUTH_SECRET, "guess", ""}

\* int(time.time())
Seconds(now) == now \div TicksPerSecond

\* HMAC-SHA256 as a keyed function no other key reproduces
Hmac(key, data) == <<key, data>>
_sign(data) == Hmac(AUTH_SECRET, data)

Payload(exp) == [exp |-> exp]
Token(payload, sig) ==
    [present |-> TRUE, wellformed |-> TRUE, payload |-> payload, sig |-> sig]
NoCookie ==
    [present |-> FALSE, wellformed |-> FALSE, payload |-> Payload(0),
     sig |-> Hmac("", Payload(0))]
Malformed == [NoCookie EXCEPT !.present = TRUE]

make_auth_token(now) ==
    LET exp == Seconds(now) + AUTH_TTL_SECONDS
    IN  Token(Payload(exp), _sign(Payload(exp)))

\* variant: a token is still accepted at the instant it expires
verify_auth_token_inclusive(token, now) ==
    IF ~token.wellformed THEN FALSE
    ELSE IF token.sig # _sign(token.payload) THEN FALSE
    ELSE now <= token.payload.exp * TicksPerSecond

verify_auth_token(token, now) ==
    IF ~token.wellformed THEN FALSE
    ELSE IF token.sig # _sign(token.payload) THEN FALSE
    ELSE now < token.payload.exp * TicksPerSecond

is_request_authed(cookie, now) ==
    IF ~cookie.present THEN FALSE ELSE verify_auth_token(cookie, now)

\* the middleware's decision: "call_next" or "401"
require_auth_middleware(method, path, cookie, now) ==
    IF method = "OPTIONS" THEN "call_next"
    ELSE IF path \in AUTH_EXEMPT_PATHS THEN "call_next"
    ELSE IF ~is_request_authed(cookie, now) THEN "401"
    ELSE "call_next"

NoRequest ==
    [kind |-> "none", method |-> "", path |-> "", cookie |-> NoCookie,
     secretKey |-> "", at |-> 0, handled |-> FALSE, response |-> ""]
NoAuth == [now |-> 0, issued |-> {}, last |-> NoRequest]
IdleAuth == auth = NoAuth

\* cookies a client can send: none, garbage, a token it was issued, an issued
\* token with its expiry pushed back, or a token signed with a guessed key
Cookies(a) ==
    {NoCookie, Malformed}
        \cup {i.token : i \in a.issued}
        \cup {Token(Payload(i.token.payload.exp + 1), i.token.sig) :
                i \in a.issued}
        \cup {Token(Payload(Seconds(a.now) + AUTH_TTL_SECONDS),
                    Hmac("guess", Payload(Seconds(a.now) + AUTH_TTL_SECONDS)))}

\* validate_video_file is called with a path and its arguments
CoreInit ==
    /\ video \in Videos
    /\ args \in Args
    /\ pc = "new"
    /\ stats = EmptyDict
    /\ Idle

Init == CoreInit /\ IdleUpload /\ IdleAuth

\* variant: the constructor does not test the path
ConstructorRaisesNever(v) == FALSE

\* line 65: the constructor raises FileNotFoundError
ConstructorRaises(v) == ~v.exists

\* ---------------------------------------------------------------- actions
\* lines 57-66 and 431: the constructor raises and validate_video_file lets
\* the exception through to its caller
ConstructFails ==
    /\ pc = "new"
    /\ ConstructorRaises(video)
    /\ pc' = "raised"
    /\ UNCHANGED <<others, video, args, cap, frame_idx, analyzed_count,
                   total_to_analyze, actual_end_frame, stats, calls, frames,
                   exit_path, analysis, validation, validate_calls, out>>

\* lines 57-66 and 431-432: the validator is constructed and run is called
Construct ==
    /\ pc = "new"
    /\ ~ConstructorRaises(video)
    /\ pc' = "run"
    /\ UNCHANGED <<others, video, args, cap, frame_idx, analyzed_count,
                   total_to_analyze, actual_end_frame, stats, calls, frames,
                   exit_path, analysis, validation, validate_calls, out>>

\* lines 88-91: the capture does not open
OpenFails ==
    /\ pc = "run"
    /\ ~video.openable
    /\ analysis' = [success |-> FALSE,
                    message |-> [text |-> "Unable to open video file."],
                    stats |-> EmptyDict]
    /\ pc' = "analyzed"
    /\ UNCHANGED <<others, video, args, cap, frame_idx, analyzed_count,
                   total_to_analyze, actual_end_frame, stats, calls, frames,
                   exit_path, validation, validate_calls, out>>

\* lines 88-104 and 193-194: the capture opens and the estimate divides by a
\* zero sample_rate; the outer handler returns the error
SetupRaises ==
    /\ pc = "run"
    /\ video.openable
    /\ args.sample_rate = 0
    /\ cap' = "open"
    /\ actual_end_frame' = ActualEndFrame(args, video.total_frames)
    /\ analysis' = [success |-> FALSE,
                    message |-> [text |-> "Error occurred during analysis: {e}"],
                    stats |-> EmptyDict]
    /\ pc' = "analyzed"
    /\ UNCHANGED <<others, video, args, frame_idx, analyzed_count, total_to_analyze,
                   stats, calls, frames, exit_path, validation,
                   validate_calls, out>>

\* lines 88-127: the capture opens and the walk is set up
OpenStream ==
    /\ pc = "run"
    /\ video.openable
    /\ args.sample_rate # 0
    /\ cap' = "open"
    /\ actual_end_frame' = ActualEndFrame(args, video.total_frames)
    /\ total_to_analyze' =
          (actual_end_frame' - args.start_frame + args.sample_rate - 1)
             \div args.sample_rate
    /\ stats' = InitialStats(video.total_frames, args.sample_rate,
                             total_to_analyze')
    /\ frame_idx' = IF args.start_frame > 0 THEN args.start_frame ELSE 0
    /\ analyzed_count' = 0
    /\ pc' = "walk"
    /\ UNCHANGED <<others, video, args, calls, frames, exit_path, analysis, validation,
                   validate_calls, out>>

\* lines 175-191: the capture is released and analyze returns; exit_path
\* records which of the three breaks left the loop
Return(path) ==
    /\ cap' = "released"
    /\ exit_path' = path
    /\ analysis' = AnalyzeResult(analyzed_count, stats, args, actual_end_frame)
    /\ pc' = "analyzed"
    /\ UNCHANGED <<others, video, args, frame_idx, analyzed_count, total_to_analyze,
                   actual_end_frame, stats, calls, frames, validation,
                   validate_calls, out>>

\* lines 130-131: the index reached the end of the range
WalkEnd ==
    /\ pc = "walk"
    /\ frame_idx >= actual_end_frame
    /\ Return("end")

\* lines 133-134: grab reports the end of the stream
GrabFails ==
    /\ pc = "walk"
    /\ frame_idx < actual_end_frame
    /\ Return("grab")

\* lines 136 and 173: a frame off the stride is only advanced over
SkipFrame ==
    /\ pc = "walk"
    /\ frame_idx < actual_end_frame
    /\ ~OnStride(frame_idx, args.start_frame, args.sample_rate)
    /\ frame_idx' = frame_idx + 1
    /\ UNCHANGED <<others, video, args, pc, cap, analyzed_count, total_to_analyze,
                   actual_end_frame, stats, calls, frames, exit_path, analysis,
                   validation, validate_calls, out>>

\* lines 137-139: retrieve fails on a sampled frame
RetrieveFails ==
    /\ pc = "walk"
    /\ frame_idx < actual_end_frame
    /\ OnStride(frame_idx, args.start_frame, args.sample_rate)
    /\ Return("retrieve")

\* lines 137-173: a sampled frame is retrieved and the try block runs
AnalyzeFrame ==
    /\ pc = "walk"
    /\ frame_idx < actual_end_frame
    /\ OnStride(frame_idx, args.start_frame, args.sample_rate)
    /\ \E c \in ClarityVals, e \in ExposureVals, k \in ContrastVals,
          outcome \in Outcomes :
          /\ outcome = "callback" => args.has_callback
          /\ stats' = FrameStats(stats, analyzed_count, c, e, k, outcome)
          /\ analyzed_count' =
                IF Counted(outcome) THEN analyzed_count + 1 ELSE analyzed_count
          /\ calls' =
                IF Counted(outcome) /\ args.has_callback
                THEN Append(calls, CallbackArgs(analyzed_count + 1,
                                                total_to_analyze))
                ELSE calls
          /\ frames' = Append(frames, [idx |-> frame_idx, outcome |-> outcome])
    /\ frame_idx' = frame_idx + 1
    /\ UNCHANGED <<others, video, args, pc, cap, total_to_analyze, actual_end_frame,
                   exit_path, analysis, validation, validate_calls, out>>

\* lines 351-414: run assembles the output from what analyze returned;
\* include_summary is run's argument, and get_quality_summary may raise
Assemble ==
    /\ pc = "analyzed"
    /\ IF ~analysis.success
       THEN /\ out' = AnalyzeFailedOutput(analysis)
            /\ UNCHANGED <<validation, validate_calls>>
       ELSE /\ validation' = validate_quality(analysis.stats)
            /\ validate_calls' = validate_calls + 1
            /\ IF ~validation'.success
               THEN out' = ValidateFailedOutput(analysis, validation')
               ELSE \E include_summary \in BOOLEAN, summary_ok \in BOOLEAN :
                      out' = CompletedOutput(analysis, validation',
                                IF include_summary /\ summary_ok
                                THEN SummaryText ELSE "")
    /\ pc' = "done"
    /\ UNCHANGED <<others, video, args, cap, frame_idx, analyzed_count,
                   total_to_analyze, actual_end_frame, stats, calls, frames,
                   exit_path, analysis>>

Next ==
    \/ ConstructFails
    \/ Construct
    \/ OpenFails
    \/ SetupRaises
    \/ OpenStream
    \/ WalkEnd
    \/ GrabFails
    \/ SkipFrame
    \/ RetrieveFails
    \/ AnalyzeFrame
    \/ Assemble

Spec == Init /\ [][Next]_vars

\* ------------------------------------------- validate_quality on its own
\* sample counts validate is applied to: every small count, and the counts
\* of the documented scenarios
ImageCounts == (0..MaxImages) \cup {50, 100}

\* a stats dict as the walk leaves it for n analyzed frames with the given
\* counters
MkStats(n, b, u, o, l) ==
    [clarity |-> [i \in 1..n |-> IF i <= b THEN MIN_CLARITY - 1
                                 ELSE MIN_CLARITY],
     exposure |-> [i \in 1..n |-> IF i <= u THEN MIN_EXPOSURE - 1
                                  ELSE IF i <= u + o THEN MAX_EXPOSURE + 1
                                  ELSE MIN_EXPOSURE],
     contrast |-> [i \in 1..n |-> IF i <= l THEN MIN_CONTRAST - 1
                                  ELSE MIN_CONTRAST],
     num_images |-> n, blurry |-> b, under_exposed |-> u, over_exposed |-> o,
     low_contrast |-> l, total_frames |-> n, fps |-> FPS, sample_rate |-> 1,
     frames_analyzed |-> n]

InitV ==
    /\ video = [exists |-> TRUE, openable |-> TRUE, total_frames |-> 0]
    /\ args = [sample_rate |-> 1, start_frame |-> 0, end_given |-> FALSE,
               end_frame |-> 0, has_callback |-> FALSE]
    /\ pc = "validate"
    /\ \E n \in ImageCounts :
       \E b \in 0..Min(n, MaxCount), u \in 0..Min(n, MaxCount),
          l \in 0..Min(n, MaxCount) :
       \E o \in 0..Min(n - u, MaxCount) :
          stats = MkStats(n, b, u, o, l)
    /\ Idle
    /\ IdleUpload
    /\ IdleAuth

\* lines 196-261: validate_quality(stats)
ValidateCall ==
    /\ pc = "validate"
    /\ validation' = validate_quality(stats)
    /\ validate_calls' = validate_calls + 1
    /\ pc' = "validated"
    /\ UNCHANGED <<others, video, args, cap, frame_idx, analyzed_count,
                   total_to_analyze, actual_end_frame, stats, calls, frames,
                   exit_path, analysis, out>>

NextV == ValidateCall

SpecV == InitV /\ [][NextV]_vars

\* ------------------------------------------------ blurry_pct as a float
InitF ==
    /\ video = [exists |-> TRUE, openable |-> TRUE, total_frames |-> 0]
    /\ args = [sample_rate |-> 1, start_frame |-> 0, end_given |-> FALSE,
               end_frame |-> 0, has_callback |-> FALSE]
    /\ pc = "percent"
    /\ \E n \in ImageCounts \ {0} : \E b \in 0..n :
          stats = MkStats(n, b, 0, 0, 0)
    /\ Idle
    /\ IdleUpload
    /\ IdleAuth

\* lines 206-211: blurry_pct = 100 * blurry / num_images
PercentCall ==
    /\ pc = "percent"
    /\ fl' = BlurryPctFloat(stats)
    /\ pc' = "percent_done"
    /\ UNCHANGED <<upload, wasabi, auth, video, args, cap, frame_idx,
                   analyzed_count, total_to_analyze, actual_end_frame, stats,
                   calls, frames, exit_path, analysis, validation,
                   validate_calls, out>>

NextF == PercentCall

SpecF == InitF /\ [][NextF]_vars

\* ------------------------------------ run, or validate_quality on its own
InitRV == Init \/ InitV

NextRV == Next \/ NextV

SpecRV == InitRV /\ [][NextRV]_vars

\* ---------------------------------------------------- app.py: upload_video
UploadId == "upload_id"
VideoKey == "uploads/{upload_id}_{filename}"
RecordKey == "records/{upload_id}.json"

\* variant: the two status words exchanged
UploadStatusInverted(passed) == IF passed THEN "bad" ELSE "good"

\* app.py line 421: status = "good" if passed else "bad"
UploadStatus(passed) == IF passed THEN "good" ELSE "bad"

\* app.py lines 404-418: the validation dict used when the validator raised
CrashValidation ==
    [passed |-> FALSE, status |-> "bad", analyze_success |-> FALSE,
     validate_success |-> FALSE,
     message |-> [text |-> "Validator crashed: {e}"],
     analyze_message |-> EmptyMsg, validate_message |-> EmptyMsg,
     issues |-> <<[text |-> "Validator exception: {e}"]>>,
     details |-> EmptyDict, stats |-> EmptyDict, summary |-> "",
     video_path |-> VideoPath, created_at |-> CreatedAt]

\* app.py lines 437-445: the object's metadata
ObjectMetadata(passed, status) ==
    [upload_id |-> UploadId, status |-> status,
     passed |-> IF passed THEN "true" ELSE "false", record_key |-> RecordKey]

\* app.py lines 466-485: the record
UploadRecord(v, passed, status) ==
    [upload_id |-> UploadId, object_key |-> VideoKey, status |-> status,
     passed |-> passed,
     validator |->
        [analyze_success |-> Get(v, "analyze_success", FALSE),
         validate_success |-> Get(v, "validate_success", FALSE),
         message |-> Get(v, "message", EmptyMsg),
         analyze_message |-> Get(v, "analyze_message", EmptyMsg),
         validate_message |-> Get(v, "validate_message", EmptyMsg),
         issues |-> Get(v, "issues", <<>>),
         details |-> Get(v, "details", EmptyDict),
         stats |-> Get(v, "stats", EmptyDict)]]

\* app.py lines 377-396: the upload is buffered into a temp file and
\* validate_video_file is about to be called on it; a temp file that is gone
\* by then is a path that does not exist
InitU ==
    /\ CoreInit
    /\ upload = [NoUpload EXCEPT !.pc = "validating", !.tmp_file = TRUE]
    /\ wasabi = EmptyBucket
    /\ IdleAuth

\* app.py lines 397-422: validate_video_file returned or raised; passed and
\* status are taken from its result
FinishValidation ==
    /\ upload.pc = "validating"
    /\ pc \in {"done", "raised"}
    /\ LET v == IF pc = "done" THEN out ELSE CrashValidation
           passed == Get(v, "passed", FALSE)
       IN  upload' = [upload EXCEPT !.pc = "validated", !.validation = v,
                                    !.passed = passed,
                                    !.status = UploadStatus(passed)]
    /\ UNCHANGED <<coreVars, fl, wasabi, auth>>

\* app.py lines 424-463: the object is uploaded with its final metadata and
\* the temp file is removed
UploadObject ==
    /\ upload.pc = "validated"
    /\ wasabi' = [wasabi EXCEPT
                    !.object = ObjectMetadata(upload.passed, upload.status),
                    !.uploads = @ + 1]
    /\ upload' = [upload EXCEPT !.pc = "uploaded", !.tmp_file = FALSE]
    /\ UNCHANGED <<coreVars, fl, auth>>

\* app.py lines 457-463: upload_file raises; the temp file is removed in the
\* finally block and the request is answered 500
UploadObjectFails ==
    /\ upload.pc = "validated"
    /\ wasabi' = [wasabi EXCEPT !.uploads = @ + 1]
    /\ upload' = [upload EXCEPT !.pc = "upload_failed", !.tmp_file = FALSE,
                                !.response = 500]
    /\ UNCHANGED <<coreVars, fl, auth>>

\* app.py lines 465-506: the record is written and the request answered
WriteRecord ==
    /\ upload.pc = "uploaded"
    /\ wasabi' = [wasabi EXCEPT
                    !.record = UploadRecord(upload.validation, upload.passed,
                                            upload.status)]
    /\ upload' = [upload EXCEPT !.pc = "returned", !.response = 200]
    /\ UNCHANGED <<coreVars, fl, auth>>

\* app.py lines 487-490: writing the record fails
WriteRecordFails ==
    /\ upload.pc = "uploaded"
    /\ upload' = [upload EXCEPT !.pc = "record_failed", !.response = 500]
    /\ UNCHANGED <<coreVars, fl, wasabi, auth>>

NextU ==
    \/ Next
    \/ FinishValidation
    \/ UploadObject
    \/ UploadObjectFails
    \/ WriteRecord
    \/ WriteRecordFails

SpecU == InitU /\ [][NextU]_vars

\* ------------------------------------------------ app.py: auth requests
InitA ==
    /\ video = [exists |-> TRUE, openable |-> TRUE, total_frames |-> 0]
    /\ args = [sample_rate |-> 1, start_frame |-> 0, end_given |-> FALSE,
               end_frame |-> 0, has_callback |-> FALSE]
    /\ pc = "serving"
    /\ stats = EmptyDict
    /\ Idle
    /\ IdleUpload
    /\ IdleAuth

\* time passes
Tick ==
    /\ auth.now < MaxClock
    /\ auth' = [auth EXCEPT !.now = @ + 1]
    /\ UNCHANGED <<coreVars, fl, upload, wasabi>>

\* POST /auth/login passes the middleware as an exempt path; the handler
\* answers 401 or issues a token
Login ==
    /\ Cardinality(auth.issued) < MaxLogins
    /\ \E secretKey \in SecretKeys :
          LET ok == ~(secretKey = "" \/ secretKey # AUTH_SECRET)
              token == make_auth_token(auth.now)
              grant == [token |-> token, at |-> auth.now,
                        secretKey |-> secretKey]
          IN  auth' = [auth EXCEPT
                  !.issued = IF ok THEN @ \cup {grant} ELSE @,
                  !.last = [kind |-> "login", method |-> "POST",
                            path |-> "/auth/login", cookie |-> NoCookie,
                            secretKey |-> secretKey, at |-> auth.now,
                            handled |-> TRUE,
                            response |-> IF ok THEN "ok" ELSE "401"]]
    /\ UNCHANGED <<coreVars, fl, upload, wasabi>>

\* any other request goes through the middleware
Request ==
    /\ \E method \in Methods, path \in Paths \ {"/auth/login"},
          cookie \in Cookies(auth) :
          LET verdict == require_auth_middleware(method, path, cookie,
                                                 auth.now)
          IN  auth' = [auth EXCEPT
                  !.last = [kind |-> "request", method |-> method,
                            path |-> path, cookie |-> cookie,
                            secretKey |-> "", at |-> auth.now,
                            handled |-> verdict = "call_next",
                            response |-> IF verdict = "call_next"
                                         THEN "handler" ELSE "401"]]
    /\ UNCHANGED <<coreVars, fl, upload, wasabi>>

NextA == Tick \/ Login \/ Request

SpecA == InitA /\ [][NextA]_vars

\* =================================================================== claims
\* counters of the stats dict handed to validate_quality
NumImages == stats.num_images
Blurry == stats.blurry
Under == stats.under_exposed
Over == stats.over_exposed
LowContrast == stats.low_contrast

\* validate_quality has returned a verdict for the stats dict in `stats`
Validated == validate_calls > 0 /\ validation.success

\* the three checks, decided in integer arithmetic: 100 * count / n > 10
ClarityFails == 100 * Blurry > 10 * NumImages
ExposureFails == 100 * (Under + Over) > 10 * NumImages
ContrastFails == 100 * LowContrast > 10 * NumImages

\* t is count/n as a percentage in tenths, rounded to a nearest tenth
IsTenths(t, count, n) ==
    /\ 2 * (1000 * count - t * n) <= n
    /\ 2 * (t * n - 1000 * count) <= n

\* C1: every output of run has status "good" exactly when passed is true,
\* and status is "good" or "bad"
C1_StatusIffPassed ==
    pc = "done" =>
        /\ out.status \in {"good", "bad"}
        /\ (out.status = "good") <=> (out.passed = TRUE)

C1_Witness ==
    /\ pc = "done"
    /\ out.analyze_success
    /\ out.validate_success
    /\ out.passed
    /\ out.status = "good"

\* C2: for num_images > 0, validate passes exactly when none of the blurry,
\* combined exposure and low-contrast percentages is above 10; exactly 10
\* (10 of 100 blurry, 3 under + 2 over of 50) passes, 11 of 100 fails
C2_PassedIffWithinThresholds ==
    /\ (validate_calls > 0 /\ NumImages > 0) =>
          /\ validation.success
          /\ validation.result.passed
                <=> ~(ClarityFails \/ ExposureFails \/ ContrastFails)
    /\ (Validated /\ NumImages = 100 /\ Blurry = 10 /\ Under + Over = 0
          /\ LowContrast = 0) => validation.result.passed
    /\ (Validated /\ NumImages = 50 /\ Blurry = 0 /\ Under = 3 /\ Over = 2
          /\ LowContrast = 0) => validation.result.passed
    /\ (Validated /\ NumImages = 100 /\ Blurry = 11)
          => ~validation.result.passed

C2_Witness ==
    /\ pc = "validated"
    /\ NumImages = 50 /\ Blurry = 0 /\ Under = 3 /\ Over = 2 /\ LowContrast = 0
    /\ validation.result.passed

\* the issue lines the three checks are expected to give, in check order
ExpectedTexts ==
    (IF ClarityFails
        THEN <<"Clarity: {pct}% of frames are blurry (threshold: {thr}%)">>
        ELSE <<>>)
    \o (IF ExposureFails
        THEN <<"Exposure: {pct}% of frames have exposure issues (threshold: {thr}%)">>
        ELSE <<>>)
    \o (IF ContrastFails
        THEN <<"Contrast: {pct}% of frames have low contrast (threshold: {thr}%)">>
        ELSE <<>>)

ExpectedCounts ==
    (IF ClarityFails THEN <<Blurry>> ELSE <<>>)
    \o (IF ExposureFails THEN <<Under + Over>> ELSE <<>>)
    \o (IF ContrastFails THEN <<LowContrast>> ELSE <<>>)

\* C3: the issues are the failing checks' summary lines in the order
\* clarity, exposure, contrast, one per failing check, and the failure
\* message carries the same lines in the same order and their number
C3_IssuesInCheckOrder ==
    (Validated /\ NumImages > 0) =>
        LET issues == validation.result.issues
        IN  /\ Len(issues) <= 3
            /\ Len(issues) = Len(ExpectedTexts)
            /\ \A i \in 1..Len(issues) :
                  /\ issues[i].text = ExpectedTexts[i]
                  /\ IsTenths(issues[i].pct, ExpectedCounts[i], NumImages)
                  /\ issues[i].thr = 100
            /\ Len(issues) > 0 =>
                  /\ validation.message.lines = issues
                  /\ validation.message.count = Len(issues)
            /\ (NumImages = 100 /\ Blurry = 12 /\ Under + Over = 0
                  /\ LowContrast = 0) =>
                  /\ issues = <<[text |-> "Clarity: {pct}% of frames are blurry (threshold: {thr}%)",
                                 pct |-> 120, thr |-> 100]>>
                  /\ ~validation.result.passed

C3_Witness ==
    /\ pc = "validated"
    /\ Validated
    /\ Len(validation.result.issues) = 3
    /\ validation.message.count = 3

\* C4: details[check] is empty for a passing check and starts with the
\* check's issue line for a failing one; a failing exposure check adds one
\* sub-line for under-exposed and one for over-exposed when non-zero, under
\* before over, and no sub-line is among the issues
C4_DetailsPerCheck ==
    (Validated /\ NumImages > 0) =>
        LET issues == validation.result.issues
            details == validation.result.details
            subs == SubSeq(details.exposure, 2, Len(details.exposure))
            expected == (IF Under > 0 THEN <<"  - Under-exposed: {pct}%">>
                         ELSE <<>>)
                        \o (IF Over > 0 THEN <<"  - Over-exposed: {pct}%">>
                            ELSE <<>>)
            counts == (IF Under > 0 THEN <<Under>> ELSE <<>>)
                      \o (IF Over > 0 THEN <<Over>> ELSE <<>>)
        IN  /\ DOMAIN details = {"clarity", "exposure", "contrast"}
            /\ IF ClarityFails
               THEN details.clarity = <<issues[1]>>
               ELSE details.clarity = <<>>
            /\ IF ContrastFails
               THEN details.contrast = <<issues[Len(issues)]>>
               ELSE details.contrast = <<>>
            /\ IF ExposureFails
               THEN /\ details.exposure[1]
                          = issues[IF ClarityFails THEN 2 ELSE 1]
                    /\ Len(subs) = Len(expected)
                    /\ \A i \in 1..Len(subs) :
                          /\ subs[i].text = expected[i]
                          /\ IsTenths(subs[i].pct, counts[i], NumImages)
                          /\ \A j \in 1..Len(issues) :
                                issues[j].text # subs[i].text
               ELSE details.exposure = <<>>

C4_Witness ==
    /\ pc = "validated"
    /\ Under > 0
    /\ Over > 0
    /\ Len(validation.result.details.exposure) = 3
    /\ Len(validation.result.details.clarity) = 0

\* C5: when the stream does not open, run returns the terminal output with
\* the analyzer's failure message and validate is not called
C5_UnopenableOutput ==
    (pc = "done" /\ ~video.openable) =>
        /\ out.analyze_success = FALSE
        /\ out.validate_success = FALSE
        /\ out.passed = FALSE
        /\ out.status = "bad"
        /\ out.issues = <<>>
        /\ DOMAIN out.details = {}
        /\ DOMAIN out.stats = {}
        /\ out.summary = ""
        /\ out.message = [text |-> "Unable to open video file."]
        /\ out.message = analysis.message
        /\ validate_calls = 0

C5_Witness ==
    /\ pc = "done"
    /\ ~video.openable
    /\ out.analyze_success = FALSE

\* analyze has returned
Analyzed == pc \in {"analyzed", "done"}

\* number of sampled frames whose metrics were all computed and counted
NumAnalyzed ==
    Cardinality({i \in 1..Len(frames) : Counted(frames[i].outcome)})

NoFramesMessage == [text |-> "No frames were analyzed."]

\* C6: on an opened stream with a positive sample_rate, analyze succeeds
\* exactly when at least one frame was analyzed; with none it returns the
\* no-frames failure with empty stats, so successful stats have
\* num_images >= 1
C6_SuccessIffFrameAnalyzed ==
    (Analyzed /\ video.openable /\ args.sample_rate > 0) =>
        /\ analysis.success <=> NumAnalyzed >= 1
        /\ ~analysis.success =>
              /\ analysis.message = NoFramesMessage
              /\ DOMAIN analysis.stats = {}
        /\ analysis.success =>
              /\ analysis.stats.num_images >= 1
              /\ analysis.stats.num_images = NumAnalyzed

\* every sampled frame failed, and analyze reports that no frame was analyzed
C6_Witness ==
    /\ pc = "analyzed"
    /\ video.openable
    /\ args.sample_rate > 0
    /\ Len(frames) = 2
    /\ NumAnalyzed = 0
    /\ ~analysis.success
    /\ analysis.message = NoFramesMessage

\* a non-empty stream analyzed with a stride above its frame count
StrideExceedsTotal ==
    /\ Analyzed
    /\ video.openable
    /\ video.total_frames > 0
    /\ args.sample_rate > video.total_frames

\* C7, as stated: a non-empty stream with sample_rate above the total frame
\* count yields the no-frames failure
C7_StrideAboveTotalYieldsNoFrames ==
    StrideExceedsTotal =>
        /\ ~analysis.success
        /\ analysis.message = NoFramesMessage

\* C7, amended: with sample_rate above the total frame count the only frame
\* sampled is the one at start_frame, and it is sampled whenever the walk
\* runs to the end of a range that holds it; analyze succeeds with
\* num_images = 1 exactly when that frame was analyzed, and yields the
\* no-frames failure otherwise
C7_StrideAboveTotalSamplesStartFrame ==
    StrideExceedsTotal =>
        /\ Len(frames) <= 1
        /\ \A i \in 1..Len(frames) : frames[i].idx = args.start_frame
        /\ (exit_path = "end" /\ args.start_frame < actual_end_frame)
              => Len(frames) = 1
        /\ analysis.success
              <=> (Len(frames) = 1 /\ Counted(frames[1].outcome))
        /\ analysis.success => analysis.stats.num_images = 1
        /\ ~analysis.success => analysis.message = NoFramesMessage

C7_Witness ==
    /\ StrideExceedsTotal
    /\ video.total_frames = 2
    /\ exit_path = "end"
    /\ Len(frames) = 1
    /\ analysis.success
    /\ analysis.stats.num_images = 1

\* C8: whenever analyze returns after having opened the stream, the stream
\* has been released
C8_ReleasedOnReturn ==
    (Analyzed /\ cap # "none") => cap = "released"

\* C9: the progress callback is invoked once per analyzed frame, with the
\* counts 1, 2, 3, ... and the same estimated total each time
C9_ProgressCalls ==
    /\ Len(calls) = IF args.has_callback THEN NumAnalyzed ELSE 0
    /\ \A i \in 1..Len(calls) :
          /\ calls[i][1] = i
          /\ calls[i][2] = calls[1][2]
          /\ calls[i][2] = total_to_analyze

C9_Witness ==
    /\ args.has_callback
    /\ Len(calls) = 2
    /\ calls[2][1] = 2

\* C10: during the walk and in the returned stats every counter is at most
\* num_images and every metric sequence has length num_images
C10_CountersWithinNumImages ==
    (pc \in {"walk", "analyzed", "done"} /\ DOMAIN stats # {}) =>
        /\ stats.blurry <= stats.num_images
        /\ stats.under_exposed <= stats.num_images
        /\ stats.over_exposed <= stats.num_images
        /\ stats.low_contrast <= stats.num_images
        /\ Len(stats.clarity) = stats.num_images
        /\ Len(stats.exposure) = stats.num_images
        /\ Len(stats.contrast) = stats.num_images

\* the walk of an opened stream with a positive sample_rate has returned
WalkReturned == Analyzed /\ video.openable /\ args.sample_rate > 0

\* C11: a decode or convert failure on a sampled frame does not stop the
\* walk: unless the stream ends, the walk reaches the end of the range, and
\* analyze succeeds when any frame was analyzed
C11_FrameFailureIsLocal ==
    (WalkReturned /\ exit_path # "grab") =>
        /\ frame_idx >= actual_end_frame
        /\ NumAnalyzed >= 1 => analysis.success

\* the effective end of the range: end_frame when given and below the frame
\* count, the frame count otherwise
EffectiveEnd ==
    IF args.end_given /\ args.end_frame < video.total_frames
    THEN args.end_frame ELSE video.total_frames

\* the frames of the range that fall on the stride
StrideSet ==
    { i \in 0..(MaxFrames + 1) :
        /\ args.start_frame <= i
        /\ i < EffectiveEnd
        /\ (i - args.start_frame) % args.sample_rate = 0 }

\* C12: the frames decoded are frames of the stride set, in increasing order;
\* when the stream delivers every frame and no frame fails, they are exactly
\* the stride set and all of them are counted
C12_SampledFramesAreStrideSet ==
    (pc \in {"walk", "analyzed", "done"} /\ video.openable
       /\ args.sample_rate > 0) =>
        /\ \A i \in 1..Len(frames) : frames[i].idx \in StrideSet
        /\ \A i \in 1..Len(frames), j \in 1..Len(frames) :
              i < j => frames[i].idx < frames[j].idx
        /\ (Analyzed /\ exit_path = "end"
              /\ \A i \in 1..Len(frames) : frames[i].outcome = "ok") =>
              /\ {frames[i].idx : i \in 1..Len(frames)} = StrideSet
              /\ analyzed_count = Cardinality(StrideSet)

\* a frame off the stride was advanced over and the one on it was decoded
C12_Witness ==
    /\ pc = "analyzed"
    /\ exit_path = "end"
    /\ args.sample_rate = 2
    /\ args.start_frame = 0
    /\ frame_idx = 2
    /\ Len(frames) = 1
    /\ frames[1] = [idx |-> 0, outcome |-> "ok"]

\* run returned one of its two failure outputs
FailedOutput == pc = "done" /\ ~(out.analyze_success /\ out.validate_success)

FailureRecord ==
    /\ out.passed = FALSE
    /\ out.status = "bad"
    /\ out.message.text # ""

\* C13, as stated: for every input, a path that does not exist included, no
\* exception reaches the caller and a failure is returned as a record with
\* passed false, status "bad" and a message
C13_NeverPropagates ==
    /\ pc # "raised"
    /\ FailedOutput => FailureRecord

\* C13, amended: for a path that exists no exception reaches the caller and
\* every analyzer or validator failure is returned as a record with passed
\* false, status "bad" and a message; for a path that does not exist the
\* constructor's FileNotFoundError reaches the caller and no record is made
C13_NoExceptionForExistingPath ==
    /\ video.exists => pc # "raised"
    /\ (~video.exists /\ pc # "new") => (pc = "raised" /\ DOMAIN out = {})
    /\ FailedOutput => FailureRecord

\* a path that exists and does not open: the failure comes back as a record
C13_Witness ==
    /\ FailedOutput
    /\ video.exists
    /\ ~video.openable
    /\ FailureRecord

\* (num_images - blurry) / num_images * 100, then added to blurry_pct
ComplementSum ==
    FloatAdd(fl, FloatMul(FloatDiv(NumImages - Blurry, NumImages), 100))

Hundred == FloatOfInt(100)

\* 2^-46, the spacing of the floats around 100.0, in the third limb
Ulp100 == 2^(3 * LimbBits - GridInt - 46)

\* the floats next to 100.0: 100 + 2^-46 and 100 - 2^-46
HundredUp == <<100 * One, 0, Ulp100>>
HundredDown == <<100 * One - 1, Base - 1, Base - Ulp100>>

\* C15, as stated: blurry_pct and the complementary percentage sum to
\* exactly 100
C15_ComplementSumExact ==
    pc = "percent_done" => ComplementSum = Hundred

\* C15, amended: the two percentages sum to 100 up to float rounding: the
\* sum is 100.0 or one of the two floats next to it (100 +/- 2^-46), and it
\* is exactly 100.0 when blurry is 0 or num_images
C15_ComplementSumWithinUlp ==
    pc = "percent_done" =>
        /\ ComplementSum \in {Hundred, HundredUp, HundredDown}
        /\ (Blurry = 0 \/ Blurry = NumImages) => ComplementSum = Hundred

\* 1 blurry frame of 6: 16.666666666666668 + 83.33333333333334
C15_Witness ==
    /\ pc = "percent_done"
    /\ NumImages = 6
    /\ Blurry = 1
    /\ ComplementSum = HundredUp

NoDataMessage == [text |-> "No image data available for validation."]

\* C16: validate fails with the no-data failure exactly when num_images is
\* 0, and run never hands it such stats: no output of run has
\* analyze_success true and validate_success false, validate_success implies
\* analyze_success and passed implies both
C16_NoDataUnreachableInRun ==
    /\ validate_calls > 0 =>
          /\ ~validation.success <=> Get(stats, "num_images", 0) = 0
          /\ ~validation.success =>
                /\ validation.message = NoDataMessage
                /\ DOMAIN validation.result = {}
    /\ pc = "done" =>
          /\ ~(out.analyze_success /\ ~out.validate_success)
          /\ out.validate_success => out.analyze_success
          /\ out.passed => (out.analyze_success /\ out.validate_success)
          /\ out.analyze_success =>
                (validate_calls = 1 /\ stats.num_images >= 1)

\* run handed the stats of a single analyzed frame to validate
C16_Witness ==
    /\ pc = "done"
    /\ out.analyze_success
    /\ out.validate_success
    /\ validate_calls = 1
    /\ stats.num_images = 1

Guarded(r) ==
    r.kind = "request" /\ r.method # "OPTIONS"
        /\ r.path \notin AUTH_EXEMPT_PATHS

C18_AuthGuard ==
    LET r == auth.last
        ttl == AUTH_TTL_SECONDS * TicksPerSecond
    IN  /\ Guarded(r) =>
              /\ r.handled <=>
                    /\ r.cookie.present
                    /\ r.cookie.wellformed
                    /\ r.cookie.sig = <<AUTH_SECRET, r.cookie.payload>>
                    /\ r.at < r.cookie.payload.exp * TicksPerSecond
              /\ ~r.handled <=> r.response = "401"
              /\ r.handled =>
                    /\ \E i \in auth.issued : i.token = r.cookie
                    /\ \A i \in auth.issued :
                          i.token = r.cookie => r.at - i.at <= ttl
        /\ \A i \in auth.issued : i.secretKey = AUTH_SECRET
        /\ r.kind = "login" =>
              (r.response = "ok" <=> r.secretKey = AUTH_SECRET)

\* a guarded request served with an issued token, and the same token turned
\* away once its expiry has been reached
C18_Witness ==
    /\ Guarded(auth.last)
    /\ ~auth.last.handled
    /\ auth.last.cookie \in {i.token : i \in auth.issued}
    /\ auth.last.at = auth.last.cookie.payload.exp * TicksPerSecond

====
